---- MODULE Spec2Model ----
(***************************************************************************)
(* Model of ui/lib/apps/TopSQL/pages/List/ListDetail/ListDetailTable.tsx:  *)
(* the plan-record derivation usePlanRecord and the selection state of the *)
(* ListDetailTable component.                                              *)
(*                                                                         *)
(* An optional JavaScript value (a field that may be undefined) is a       *)
(* sequence of length 0 (undefined) or 1 (the value).                      *)
(***************************************************************************)
EXTENDS Integers, Sequences, FiniteSets, TLC

VARIABLES
    sqlRecord,      \* the `record` prop of ListDetailTable
    mounted,        \* whether the component has rendered
    planRecords,    \* usePlanRecord(sqlRecord).records
    isMultiPlans,   \* usePlanRecord(sqlRecord).isMultiPlans
    storage,        \* the storage backend: storage key -> optional row key
    selection,      \* the key marked selected in the table's Selection object
    selectedRecord, \* useRecordSelection(...).selectedRecord
    planRecord,     \* the planRecord prop given to ListDetailContent
    lastEvent       \* what the component did last

vars == <<sqlRecord, mounted, planRecords, isMultiPlans, storage, selection,
          selectedRecord, planRecord, lastEvent>>

(***************************************************************************)
(* Optional values                                                         *)
(***************************************************************************)
Undefined == <<>>
Some(x) == <<x>>
IsDefined(o) == o # <<>>
Val(o) == o[1]

(***************************************************************************)
(* Bounds and input domains                                                *)
(***************************************************************************)
MaxPlans == 3
MaxUIPlans == 2

\* plan_digest of a TopsqlSummaryPlanItem: absent, empty, or a real digest
Digests == {Undefined, Some(""), Some("a"), Some("b")}
\* cpu_time_ms of a TopsqlSummaryPlanItem: absent, empty, or samples
CpuSamples == {Undefined, Some(<<>>), Some(<<1>>), Some(<<1, 2>>), Some(<<5>>)}

PlanItems == [plan_digest : Digests, cpu_time_ms : CpuSamples]
\* the plans shown in the table: every digest, and "b" with either total
UIPlanItems == [plan_digest : Digests, cpu_time_ms : {Some(<<1, 2>>)}]
               \cup {[plan_digest |-> Some("b"), cpu_time_ms |-> Some(<<5>>)]}

SeqsUpTo(S, n) == UNION {[1..k -> S] : k \in 0..n}

\* usePlanRecord does not read is_other
SQLRecords ==
    [is_other : {FALSE},
     plans : {Undefined} \cup {Some(ps) : ps \in SeqsUpTo(PlanItems, MaxPlans)}]
UISQLRecords ==
    [is_other : BOOLEAN,
     plans : {Undefined} \cup {Some(ps) : ps \in SeqsUpTo(UIPlanItems, MaxUIPlans)}]

(***************************************************************************)
(* @lib/apps/TopSQL/utils/specialRecord                                    *)
(***************************************************************************)
OVERALL_LABEL == "(overall)"
NO_PLAN_LABEL == "(no plan)"

RECURSIVE sumFrom(_, _)
sumFrom(s, i) == IF i > Len(s) THEN 0 ELSE s[i] + sumFrom(s, i + 1)

isOverallRecord(r) == r.plan_digest = Some(OVERALL_LABEL)
isNoPlanRecord(r) == r.plan_digest = Some(NO_PLAN_LABEL)

\* a plan whose digest is absent or empty becomes the no-plan variant
convertNoPlanRecord(r) ==
    IF ~IsDefined(r.plan_digest) \/ Val(r.plan_digest) = ""
    THEN [r EXCEPT !.plan_digest = Some(NO_PLAN_LABEL)]
    ELSE r

\* the synthetic row summarizing the whole SQLRecord
createOverallRecord(record) ==
    LET plans == Val(record.plans)
        times == [i \in DOMAIN plans |->
                     IF IsDefined(plans[i].cpu_time_ms)
                     THEN sumFrom(Val(plans[i].cpu_time_ms), 1) ELSE 0]
    IN [plan_digest |-> Some(OVERALL_LABEL),
        cpu_time_ms |-> Undefined,
        cpuTime |-> sumFrom(times, 1)]

(***************************************************************************)
(* usePlanRecord                                                           *)
(***************************************************************************)
\* !record?.plans?.length
hasNoPlans(record) ==
    ~IsDefined(record.plans) \/ Len(Val(record.plans)) = 0

emptyResult_placeholder == [isMultiPlans |-> FALSE,
                            records |-> <<[plan_digest |-> Some(NO_PLAN_LABEL),
                                           cpu_time_ms |-> Undefined,
                                           cpuTime |-> 0]>>]
\* return { isMultiPlans: false, records: [] }
emptyResult == [isMultiPlans |-> FALSE, records |-> <<>>]

multiPlans_atLeastOne(plans) == Len(plans) >= 1
\* record.plans.length > 1
multiPlans(plans) == Len(plans) > 1

\* Array.prototype.reduce((pt, t) => pt + t, 0), left to right
RECURSIVE reduceSum(_, _, _)
reduceSum(arr, i, pt) ==
    IF i > Len(arr) THEN pt ELSE reduceSum(arr, i + 1, pt + arr[i])

cpuTimeOf_firstSample(p) ==
    IF IsDefined(p.cpu_time_ms) /\ Len(Val(p.cpu_time_ms)) > 0
    THEN Val(p.cpu_time_ms)[1] ELSE 0
\* p.cpu_time_ms?.reduce((pt, t) => pt + t, 0) || 0
cpuTimeOf(p) ==
    LET reduced == IF IsDefined(p.cpu_time_ms)
                   THEN Some(reduceSum(Val(p.cpu_time_ms), 1, 0))
                   ELSE Undefined
    IN IF ~IsDefined(reduced) \/ Val(reduced) = 0 THEN 0 ELSE Val(reduced)

\* { ...p, cpuTime }
withCpuTime(p) ==
    [plan_digest |-> p.plan_digest,
     cpu_time_ms |-> p.cpu_time_ms,
     cpuTime |-> cpuTimeOf(p)]

compareFn_ascending(a, b) == a.cpuTime - b.cpuTime
\* (a, b) => b.cpuTime - a.cpuTime
compareFn(a, b) == b.cpuTime - a.cpuTime

placedBefore_unstable(x, h) == compareFn(h, x) >= 0
\* Array.prototype.sort is stable: a later element x is placed before an
\* earlier element h only when the comparator orders h strictly after x
placedBefore(x, h) == compareFn(h, x) > 0

RECURSIVE insertSorted(_, _)
insertSorted(sorted, x) ==
    IF sorted = <<>> THEN <<x>>
    ELSE IF placedBefore(x, Head(sorted)) THEN <<x>> \o sorted
    ELSE <<Head(sorted)>> \o insertSorted(Tail(sorted), x)

RECURSIVE sort(_)
sort(arr) ==
    IF arr = <<>> THEN <<>>
    ELSE insertSorted(sort(SubSeq(arr, 1, Len(arr) - 1)), arr[Len(arr)])

mapConvert_skipped(rs) == rs
\* .map(convertNoPlanRecord)
mapConvert(rs) == [i \in DOMAIN rs |-> convertNoPlanRecord(rs[i])]

usePlanRecord(record) ==
    IF hasNoPlans(record) THEN emptyResult
    ELSE LET plans == Val(record.plans)                       \* [...record.plans]
             mapped == [i \in DOMAIN plans |-> withCpuTime(plans[i])]
             records == mapConvert(sort(mapped))
         IN [isMultiPlans |-> multiPlans(plans),
             records |-> IF multiPlans(plans)
                         THEN <<createOverallRecord(record)>> \o records  \* unshift
                         ELSE records]

inputAfterDerive_sortInPlace(record) ==
    IF hasNoPlans(record) THEN record
    ELSE LET plans == Val(record.plans)
             keyed == [i \in DOMAIN plans |-> withCpuTime(plans[i])]
             sorted == sort(keyed)
         IN [record EXCEPT !.plans =
                Some([i \in DOMAIN sorted |->
                        [plan_digest |-> sorted[i].plan_digest,
                         cpu_time_ms |-> sorted[i].cpu_time_ms]])]
\* The SQLRecord as usePlanRecord leaves it: the spread and the first map
\* build a new array of new objects, and sort, convertNoPlanRecord and
\* unshift act on those
inputAfterDerive(record) == record

(***************************************************************************)
(* ListDetailTable: selection and the plan given to the detail panel       *)
(***************************************************************************)
storageKey_listTable == "topsql.list_table_selected_key"
\* storageKey: 'topsql.list_detail_table_selected_key'
storageKey == "topsql.list_detail_table_selected_key"

\* the keys of the storage backend: this table's and another table's
StorageKeys == {"topsql.list_detail_table_selected_key",
                "topsql.list_table_selected_key"}

\* getKey: (r) => r.plan_digest!
getKey(r) == r.plan_digest

canSelectItem_notOverall(r) == ~isOverallRecord(r)
\* canSelectItem: (r) => !isNoPlanRecord(r) && !isOverallRecord(r)
canSelectItem(r) == ~isNoPlanRecord(r) /\ ~isOverallRecord(r)

\* useRecordSelection: the first of `selections` whose key is the stored one
findSelectedRecord(selections, stored) ==
    LET hits == {i \in DOMAIN selections : getKey(selections[i]) = stored}
    IN IF ~IsDefined(stored) \/ hits = {} THEN Undefined
       ELSE Some(selections[CHOOSE i \in hits : \A j \in hits : i <= j])

\* useRecordSelection: the Selection object marks the stored key when a row
\* that may be selected has it
restoreSelection(selections, stored) ==
    IF /\ IsDefined(stored)
       /\ \E i \in DOMAIN selections :
             getKey(selections[i]) = stored /\ canSelectItem(selections[i])
    THEN stored ELSE Undefined

planRecordMemo_selectedOnly(multi, records, selected) == selected
\* useMemo(() => isMultiPlans ? selectedRecord : planRecords[0])
planRecordMemo(multi, records, selected) ==
    IF multi THEN selected
    ELSE IF Len(records) >= 1 THEN Some(records[1]) ELSE Undefined

\* one execution of the component function with prop `record`
Render(record, store) ==
    \E derived \in {usePlanRecord(record)} :
    LET stored == store[storageKey]
        selected == findSelectedRecord(derived.records, stored)
    IN /\ sqlRecord' = inputAfterDerive(record)
       /\ mounted' = TRUE
       /\ planRecords' = derived.records
       /\ isMultiPlans' = derived.isMultiPlans
       /\ storage' = store
       /\ selection' = restoreSelection(derived.records, stored)
       /\ selectedRecord' = selected
       /\ planRecord' = planRecordMemo(derived.isMultiPlans, derived.records,
                                       selected)

\* the first render, in a fresh storage
Init ==
    \E record \in UISQLRecords :
        LET store == [k \in StorageKeys |-> Undefined]
            derived == usePlanRecord(record)
            selected == findSelectedRecord(derived.records, store[storageKey])
        IN /\ sqlRecord = record
           /\ mounted = TRUE
           /\ planRecords = derived.records
           /\ isMultiPlans = derived.isMultiPlans
           /\ storage = store
           /\ selection = restoreSelection(derived.records, store[storageKey])
           /\ selectedRecord = selected
           /\ planRecord = planRecordMemo(derived.isMultiPlans, derived.records,
                                          selected)
           /\ lastEvent = "mount"

\* a click on row i of the table: the Selection object takes the row when it
\* may be selected, the hook stores its key, and the component renders again
RowClicked(i) ==
    /\ mounted
    /\ i \in DOMAIN planRecords
    /\ IF canSelectItem(planRecords[i])
       THEN Render(sqlRecord,
                   [storage EXCEPT ![storageKey] = getKey(planRecords[i])])
       ELSE Render(sqlRecord, storage)
    /\ lastEvent' = "click"

\* the parent passes another SQLRecord
RecordChanged(record) ==
    /\ mounted
    /\ Render(record, storage)
    /\ lastEvent' = "record"

\* a render with the same record, such as after a change of capacity
Rerender ==
    /\ mounted
    /\ Render(sqlRecord, storage)
    /\ lastEvent' = "rerender"

\* the component goes away; the storage backend keeps what it holds
Unmount ==
    /\ mounted
    /\ mounted' = FALSE
    /\ planRecords' = <<>>
    /\ isMultiPlans' = FALSE
    /\ selection' = Undefined
    /\ selectedRecord' = Undefined
    /\ planRecord' = Undefined
    /\ lastEvent' = "unmount"
    /\ UNCHANGED <<sqlRecord, storage>>

\* the component is shown again with the record it had
Mount ==
    /\ ~mounted
    /\ Render(sqlRecord, storage)
    /\ lastEvent' = "mount"

Next ==
    \/ \E i \in 1..(MaxUIPlans + 1) : RowClicked(i)
    \/ \E record \in UISQLRecords : RecordChanged(record)
    \/ Rerender
    \/ Unmount
    \/ Mount

Spec == Init /\ [][Next]_vars

\* <ListDetailContent> is rendered unless the record is the "other" bucket
detailPanelShown == mounted /\ ~sqlRecord.is_other

(***************************************************************************)
(* The derivation on its own: any SQLRecord, derived and re-derived        *)
(***************************************************************************)
InitDerive ==
    /\ sqlRecord \in SQLRecords
    /\ mounted = FALSE
    /\ planRecords = <<>>
    /\ isMultiPlans = FALSE
    /\ storage = [k \in StorageKeys |-> Undefined]
    /\ selection = Undefined
    /\ selectedRecord = Undefined
    /\ planRecord = Undefined
    /\ lastEvent = "none"

Derive ==
    /\ planRecords' = usePlanRecord(sqlRecord).records
    /\ isMultiPlans' = usePlanRecord(sqlRecord).isMultiPlans
    /\ sqlRecord' = inputAfterDerive(sqlRecord)
    /\ mounted' = TRUE
    /\ UNCHANGED <<storage, selection, selectedRecord, planRecord, lastEvent>>

NextDerive == Derive

SpecDerive == InitDerive /\ [][NextDerive]_vars

(***************************************************************************)
(* Properties of the derivation (checked under SpecDerive)                 *)
(***************************************************************************)
\* the input plans, an absent list read as empty
InputPlans == IF IsDefined(sqlRecord.plans) THEN Val(sqlRecord.plans) ELSE <<>>
\* the derived records without the overall row
PlanRows == IF isMultiPlans THEN Tail(planRecords) ELSE planRecords

RECURSIVE SumOf(_)
SumOf(s) == IF s = <<>> THEN 0 ELSE Head(s) + SumOf(Tail(s))
\* the sum of a plan's samples, 0 when the array is absent
SampleSum(cpu) == IF IsDefined(cpu) THEN SumOf(Val(cpu)) ELSE 0

EmptyDigest(d) == d = Undefined \/ d = Some("")
\* what a plan is expected to look like in the result
Expected(p) ==
    [plan_digest |-> IF EmptyDigest(p.plan_digest) THEN Some(NO_PLAN_LABEL)
                     ELSE p.plan_digest,
     cpu_time_ms |-> p.cpu_time_ms,
     cpuTime |-> SampleSum(p.cpu_time_ms)]
ExpectedRows == [i \in DOMAIN InputPlans |-> Expected(InputPlans[i])]

Count(s, v) == Cardinality({i \in DOMAIN s : s[i] = v})
Range(s) == {s[i] : i \in DOMAIN s}
SameElements(s, t) ==
    \A v \in Range(s) \cup Range(t) : Count(s, v) = Count(t, v)
WithCpu(s, c) == LET Test(r) == r.cpuTime = c IN SelectSeq(s, Test)
NonIncreasing(s) ==
    \A i \in 1..(Len(s) - 1) : s[i].cpuTime >= s[i + 1].cpuTime

\* C1: a SQLRecord with N > 1 plans derives isMultiPlans = TRUE and N + 1
\* records, the first the overall record built from the SQLRecord, the other
\* N in non-increasing order of cpuTime.
C1_MultiPlans ==
    (mounted /\ Len(InputPlans) > 1) =>
        /\ isMultiPlans = TRUE
        /\ Len(planRecords) = Len(InputPlans) + 1
        /\ planRecords[1] = createOverallRecord(sqlRecord)
        /\ isOverallRecord(planRecords[1])
        /\ NonIncreasing(Tail(planRecords))
C1_Witness ==
    /\ mounted
    /\ Len(InputPlans) = 3
    /\ Len(planRecords) = 4
    /\ planRecords[2].cpuTime > planRecords[3].cpuTime
    /\ InputPlans[1].cpu_time_ms = Some(<<1, 2>>)
    /\ InputPlans[2].cpu_time_ms = Some(<<5>>)

\* C2: a SQLRecord with exactly one plan derives isMultiPlans = FALSE and
\* exactly one record, which is not the overall record, also when the plan's
\* digest is empty.
C2_SinglePlan ==
    (mounted /\ Len(InputPlans) = 1) =>
        /\ isMultiPlans = FALSE
        /\ Len(planRecords) = 1
        /\ ~isOverallRecord(planRecords[1])
        /\ planRecords[1] # createOverallRecord(sqlRecord)
C2_Witness ==
    /\ mounted
    /\ InputPlans = <<[plan_digest |-> Some(""), cpu_time_ms |-> Some(<<1>>)]>>
    /\ Len(planRecords) = 1
    /\ isNoPlanRecord(planRecords[1])

\* C3: a SQLRecord whose plans list is empty or absent derives
\* isMultiPlans = FALSE and no records at all.
C3_NoPlans ==
    (mounted /\ Len(InputPlans) = 0) =>
        /\ isMultiPlans = FALSE
        /\ planRecords = <<>>
C3_Witness ==
    /\ mounted
    /\ sqlRecord.plans = Some(<<>>)
    /\ planRecords = <<>>

\* C7: every derived plan row has cpuTime equal to the sum of its plan's
\* cpu_time_ms samples, 0 when the array is absent or empty, the rows hold
\* the input's sample arrays, and the rows are ordered by that sum.
C7_CpuTimeIsSum ==
    mounted =>
        /\ \A i \in DOMAIN PlanRows :
              PlanRows[i].cpuTime = SampleSum(PlanRows[i].cpu_time_ms)
        /\ SameElements([i \in DOMAIN PlanRows |-> PlanRows[i].cpu_time_ms],
                        [i \in DOMAIN InputPlans |-> InputPlans[i].cpu_time_ms])
        /\ \A i \in 1..(Len(PlanRows) - 1) :
              SampleSum(PlanRows[i].cpu_time_ms)
                  >= SampleSum(PlanRows[i + 1].cpu_time_ms)
C7_Witness ==
    /\ mounted
    /\ Len(InputPlans) = 3
    /\ InputPlans[1].cpu_time_ms = Undefined
    /\ InputPlans[2].cpu_time_ms = Some(<<>>)
    /\ InputPlans[3].cpu_time_ms = Some(<<1, 2>>)
    /\ PlanRows[1].cpuTime = 3
    /\ PlanRows[2].cpuTime = 0
    /\ PlanRows[3].cpuTime = 0

\* C8: the sort is stable: the rows of equal cpuTime appear in the result in
\* the order their plans have in the input.
C8_StableSort ==
    mounted =>
        \A c \in {PlanRows[i].cpuTime : i \in DOMAIN PlanRows} \cup
                 {ExpectedRows[i].cpuTime : i \in DOMAIN ExpectedRows} :
            WithCpu(PlanRows, c) = WithCpu(ExpectedRows, c)
C8_Witness ==
    /\ mounted
    /\ Len(InputPlans) = 3
    /\ InputPlans[1] = [plan_digest |-> Some("b"), cpu_time_ms |-> Some(<<1, 2>>)]
    /\ InputPlans[2] = [plan_digest |-> Some("a"), cpu_time_ms |-> Some(<<5>>)]
    /\ InputPlans[3] = [plan_digest |-> Undefined, cpu_time_ms |-> Some(<<1, 2>>)]
    /\ PlanRows[2].plan_digest = Some("b")
    /\ isNoPlanRecord(PlanRows[3])

\* C9: every input plan appears exactly once among the rows that are not the
\* overall row, as the no-plan variant exactly when its digest is absent or
\* empty, and with its own digest otherwise.
C9_EachPlanOnce ==
    mounted =>
        /\ Len(PlanRows) = Len(InputPlans)
        /\ SameElements(PlanRows, ExpectedRows)
        /\ \A i \in DOMAIN PlanRows : ~isOverallRecord(PlanRows[i])
        /\ Cardinality({i \in DOMAIN PlanRows : isNoPlanRecord(PlanRows[i])})
             = Cardinality({i \in DOMAIN InputPlans :
                               EmptyDigest(InputPlans[i].plan_digest)})
C9_Witness ==
    /\ mounted
    /\ Len(InputPlans) = 3
    /\ InputPlans[1].plan_digest = Undefined
    /\ InputPlans[2].plan_digest = Some("a")
    /\ InputPlans[3].plan_digest = Some("")
    /\ Cardinality({i \in DOMAIN PlanRows : isNoPlanRecord(PlanRows[i])}) = 2

RealDigests ==
    {InputPlans[i].plan_digest : i \in {j \in DOMAIN InputPlans :
                                          ~EmptyDigest(InputPlans[j].plan_digest)}}

\* C4: whatever rows were clicked and records passed, a row may be selected
\* exactly when it is neither the overall row nor a no-plan row, and the
\* selected row is never the overall row or a plan with an empty or absent
\* digest.
C4_OnlyPlanRowsSelected ==
    mounted =>
        /\ \A i \in DOMAIN planRecords :
              canSelectItem(planRecords[i]) <=>
                  /\ ~(Len(InputPlans) > 1 /\ i = 1)
                  /\ planRecords[i].plan_digest \in RealDigests
        /\ IsDefined(selection) => selection \in RealDigests
        /\ IsDefined(selectedRecord) =>
              /\ Val(selectedRecord).plan_digest \in RealDigests
              /\ ~isOverallRecord(Val(selectedRecord))
              /\ ~isNoPlanRecord(Val(selectedRecord))
              /\ Len(InputPlans) > 1 => Val(selectedRecord) # planRecords[1]
C4_Witness ==
    /\ mounted
    /\ lastEvent = "click"
    /\ storage["topsql.list_detail_table_selected_key"] = Undefined
    /\ Len(planRecords) = 3
    /\ isOverallRecord(planRecords[1])
    /\ planRecords[2].plan_digest = Some("a")
    /\ isNoPlanRecord(planRecords[3])
    /\ selection = Undefined

\* C5: the plan given to the detail panel is the selected row when the
\* SQLRecord has more than one plan, and the one derived record when it has
\* exactly one plan, whatever is selected.
C5_ForwardedPlan ==
    mounted =>
        /\ Len(InputPlans) > 1 =>
              /\ planRecord = selectedRecord
              /\ IsDefined(selection) =>
                    /\ IsDefined(planRecord)
                    /\ Val(planRecord).plan_digest = selection
              /\ ~IsDefined(selection) => planRecord = Undefined
        /\ Len(InputPlans) = 1 =>
              /\ Len(planRecords) = 1
              /\ planRecord = Some(planRecords[1])
C5_Witness ==
    /\ detailPanelShown
    /\ Len(InputPlans) = 1
    /\ storage["topsql.list_detail_table_selected_key"] = Some("a")
    /\ selectedRecord = Undefined
    /\ IsDefined(planRecord)
    /\ Val(planRecord).plan_digest = Some("b")

\* C6: when a row becomes selected its plan digest is stored under
\* "topsql.list_detail_table_selected_key"; unmounting and mounting leave the
\* storage alone; and a render with the same record and an unchanged storage
\* selects the row with the stored digest.
C6_SelectionPersisted ==
    [][/\ ( /\ mounted /\ mounted' /\ sqlRecord' = sqlRecord
            /\ selection' # selection /\ IsDefined(selection') ) =>
              /\ storage'["topsql.list_detail_table_selected_key"] = selection'
              /\ selection' \in RealDigests
       /\ (~mounted \/ ~mounted') => storage' = storage
       /\ ( /\ mounted' /\ sqlRecord' = sqlRecord /\ storage' = storage
            /\ storage["topsql.list_detail_table_selected_key"] \in RealDigests ) =>
              /\ selection' = storage["topsql.list_detail_table_selected_key"]
              /\ IsDefined(selectedRecord')
              /\ Val(selectedRecord').plan_digest
                    = storage["topsql.list_detail_table_selected_key"]
      ]_vars
C6_Witness ==
    /\ mounted
    /\ lastEvent = "mount"
    /\ storage["topsql.list_detail_table_selected_key"] = Some("a")
    /\ selection = Some("a")
    /\ IsDefined(selectedRecord)
    /\ Val(selectedRecord).plan_digest = Some("a")
    /\ Len(planRecords) = 3

====
